---- MODULE Spec2Model ----
(***************************************************************************)
(* Model of tools/GenerateMkDocsApi.py: DoxygenApiGenerator reads a        *)
(* Doxygen XML directory (index.xml plus one <refid>.xml per compound) and *)
(* writes one Markdown page per renderable compound and four index pages.  *)
(*                                                                         *)
(* Representation.  A Python str is a sequence of atoms.  An atom is       *)
(* either ONE whitespace character (" ", "\t", "\n") or a chunk of text    *)
(* that neither starts nor ends with whitespace, so that str.strip() on    *)
(* the atoms is str.strip() on the characters.  Text that comes from the   *)
(* XML input is written one character per atom; literals of the code are   *)
(* one atom per chunk.  An XML attribute value, and a tag, is one atom     *)
(* (a TLA+ string); "" is the absent attribute, as every attribute read of *)
(* the code is get(name, "").  An empty str and None are both <<>>: the    *)
(* code only ever tests element text for truthiness.                       *)
(* The input is assumed to be parseable XML (ElementTree.parse succeeds).  *)
(***************************************************************************)
EXTENDS Integers, Sequences, FiniteSets, TLC

VARIABLES
    indexXml,    \* xml_dir/index.xml: Missing, or the root element of the document
    xmlFiles,    \* refid -> Missing or root element of xml_dir/<refid>.xml
    outExists,   \* whether out_dir exists
    outFiles,    \* file name -> content, the files of out_dir
    compounds,   \* self._compounds
    writes,      \* history: the write_text calls made so far, in order
    pc,          \* position inside Run
    elem,        \* the element handed to a renderer called on its own
    call,        \* which renderer was called on elem ("none" before the call)
    parts,       \* final value of the local list `parts` of that renderer
    rendered     \* the str the renderer returned

vars == <<indexXml, xmlFiles, outExists, outFiles, compounds, writes, pc,
          elem, call, parts, rendered>>

runVars == <<indexXml, xmlFiles, outExists, outFiles, compounds, writes, pc>>
callVars == <<elem, call, parts, rendered>>

\* ------------------------------------------------------------------ bounds
MaxCompounds == 2
MaxParams == 2
MaxChildren == 2
MaxValues == 2

\* ----------------------------------------------------------------- strings
IsSpace(a) == a \in {" ", "\t", "\n"}

RECURSIVE LStrip(_)
LStrip(s) == IF s # <<>> /\ IsSpace(Head(s)) THEN LStrip(Tail(s)) ELSE s

RECURSIVE RStrip(_)
RStrip(s) ==
    IF s # <<>> /\ IsSpace(s[Len(s)]) THEN RStrip(SubSeq(s, 1, Len(s) - 1)) ELSE s

Strip(s) == RStrip(LStrip(s))

RECURSIVE Concat(_)
Concat(ss) == IF ss = <<>> THEN <<>> ELSE Head(ss) \o Concat(Tail(ss))

RECURSIVE Join(_, _)
Join(sep, ss) ==
    IF ss = <<>> THEN <<>>
    ELSE IF Len(ss) = 1 THEN Head(ss)
    ELSE Head(ss) \o sep \o Join(sep, Tail(ss))

\* The backquote character, which a TLA+ string cannot hold.
BQ == "<bq>"

NL == <<"\n">>
NLNL == <<"\n", "\n">>

\* Code points of the atoms that occur in display names.
CharCodes ==
    [a \in {" ", "A", "B", "a", "b", "index"} |->
        CASE a = " " -> <<32>>
          [] a = "A" -> <<65>>
          [] a = "B" -> <<66>>
          [] a = "a" -> <<97>>
          [] a = "b" -> <<98>>
          [] a = "index" -> <<105, 110, 100, 101, 120>>]

RECURSIVE CodePoints(_)
CodePoints(s) == IF s = <<>> THEN <<>> ELSE CharCodes[Head(s)] \o CodePoints(Tail(s))

RECURSIVE SeqLess(_, _)
SeqLess(x, y) ==
    IF y = <<>> THEN FALSE
    ELSE IF x = <<>> THEN TRUE
    ELSE IF Head(x) # Head(y) THEN Head(x) < Head(y)
    ELSE SeqLess(Tail(x), Tail(y))

\* Python's str `<`: lexicographic by code point.
StrLess(s, t) == SeqLess(CodePoints(s), CodePoints(t))

\* --------------------------------------------------------------------- XML
NoAttrs == [kind |-> "", refid |-> "", url |-> ""]

E(tag, attrs, text, children, tail) ==
    [tag |-> tag, attrs |-> attrs, text |-> text, children |-> children, tail |-> tail]

\* None, where the code holds an Optional[Element], and the absent file.
Missing == E("<none>", NoAttrs, <<>>, <<>>, <<>>)

IsNone(e) == e.tag = "<none>"

\* An element that holds text only.
T(tag, text) == E(tag, NoAttrs, text, <<>>, <<>>)

\* Element.findall(tag): the direct children with that tag, in order.
FindAll(e, tag) == SelectSeq(e.children, LAMBDA c : c.tag = tag)

\* Element.find(tag): the first such child, or None.
Find(e, tag) == IF FindAll(e, tag) = <<>> THEN Missing ELSE Head(FindAll(e, tag))

\* Element.findtext(tag, default): text of the first such child ("" when it
\* has none), or the default.
FindText(e, tag, default) ==
    IF FindAll(e, tag) = <<>> THEN default ELSE Head(FindAll(e, tag)).text

\* Element.iter() without the element itself: all descendants, document order.
RECURSIVE Descendants(_)
RECURSIVE DescendantsOfAll(_)
Descendants(e) == DescendantsOfAll(e.children)
DescendantsOfAll(cs) ==
    IF cs = <<>> THEN <<>>
    ELSE <<Head(cs)>> \o Descendants(Head(cs)) \o DescendantsOfAll(Tail(cs))

\* "".join(elem.itertext())
RECURSIVE IterText(_)
RECURSIVE IterTextOfAll(_)
IterText(e) == e.text \o IterTextOfAll(e.children)
IterTextOfAll(cs) ==
    IF cs = <<>> THEN <<>>
    ELSE IterText(Head(cs)) \o Head(cs).tail \o IterTextOfAll(Tail(cs))

\* --------------------------------------------------------------- renderers
\* str(idx) for the list positions that occur.
IntStr(n) ==
    CASE n = 0 -> "0" [] n = 1 -> "1" [] n = 2 -> "2" [] n = 3 -> "3" [] n = 4 -> "4"
      [] n = 5 -> "5" [] n = 6 -> "6" [] n = 7 -> "7" [] n = 8 -> "8"
      [] n = 9 -> "9"

RECURSIVE RenderInline(_)
RECURSIVE RenderChildren(_)
RECURSIVE RenderList(_, _)
RECURSIVE RenderItems(_, _, _)

\* The value of `rendered` for one child in the loop of RenderInline.
RenderChild(child) ==
    CASE child.tag \in {"parameterlist", "simplesect"} -> <<>>
      [] child.tag \in {"computeroutput", "tt"} ->
            <<BQ>> \o RenderInline(child) \o <<BQ>>
      [] child.tag = "bold" -> <<"**">> \o RenderInline(child) \o <<"**">>
      [] child.tag = "emphasis" -> <<"*">> \o RenderInline(child) \o <<"*">>
      [] child.tag = "ref" -> RenderInline(child)
      [] child.tag = "ulink" ->
            IF child.attrs.url # ""
            THEN <<"[">> \o RenderInline(child) \o <<"](", child.attrs.url, ")">>
            ELSE RenderInline(child)
      [] child.tag = "linebreak" -> <<" ", " ", "\n">>
      [] child.tag = "itemizedlist" -> NL \o RenderList(child, FALSE) \o NL
      [] child.tag = "orderedlist" -> NL \o RenderList(child, TRUE) \o NL
      [] OTHER -> RenderInline(child)

\* Mutant: the tail text is emitted before the child it follows.
RECURSIVE RenderChildrenTailFirst(_)
RenderChildrenTailFirst(cs) ==
    IF cs = <<>> THEN <<>>
    ELSE Head(cs).tail \o RenderChild(Head(cs)) \o RenderChildrenTailFirst(Tail(cs))

\* The loop of RenderInline over the children: rendered form, then tail.
RenderChildren(cs) ==
    IF cs = <<>> THEN <<>>
    ELSE RenderChild(Head(cs)) \o Head(cs).tail \o RenderChildren(Tail(cs))

RenderInline(e) == e.text \o RenderChildren(e.children)

\* The lines of RenderList for items idx, idx+1, ...
RenderItems(items, idx, ordered) ==
    IF items = <<>> THEN <<>>
    ELSE <<(IF ordered THEN <<IntStr(idx), ".">> ELSE <<"-">>)
            \o <<" ">> \o Strip(RenderInline(Head(items)))>>
         \o RenderItems(Tail(items), idx + 1, ordered)

RenderList(e, ordered) == Join(NL, RenderItems(FindAll(e, "listitem"), 1, ordered))

RECURSIVE CodeLines(_)
CodeLines(cls) ==
    IF cls = <<>> THEN <<>>
    ELSE <<RStrip(IterText(Head(cls)))>> \o CodeLines(Tail(cls))

RenderProgramlisting(e) ==
    <<BQ, BQ, BQ, "cpp", "\n">> \o RStrip(Join(NL, CodeLines(FindAll(e, "codeline"))))
        \o <<"\n", BQ, BQ, BQ>>

\* The list `paragraphs` of RenderDescription (entries may be empty).
RECURSIVE Paragraphs(_)
Paragraphs(cs) ==
    IF cs = <<>> THEN <<>>
    ELSE LET child == Head(cs)
             rest == Paragraphs(Tail(cs))
         IN CASE child.tag = "para" ->
                    IF Strip(RenderInline(child)) # <<>>
                    THEN <<Strip(RenderInline(child))>> \o rest ELSE rest
              [] child.tag = "programlisting" -> <<RenderProgramlisting(child)>> \o rest
              [] child.tag = "itemizedlist" -> <<RenderList(child, FALSE)>> \o rest
              [] child.tag = "orderedlist" -> <<RenderList(child, TRUE)>> \o rest
              [] OTHER -> rest

RenderDescription(e) ==
    IF IsNone(e) THEN <<>>
    ELSE Join(NLNL, SelectSeq(Paragraphs(e.children), LAMBDA p : p # <<>>))

\* _WrapCard
WrapCard(content) ==
    IF content = <<>> THEN <<>>
    ELSE Join(NL, << <<"<div class=\"snapi-api-card\" markdown=\"1\">">>,
                     Strip(content),
                     <<"</div>">> >>)

\* `[x, ""]` when x is non-empty, nothing otherwise: the optional blocks.
Block(x) == IF x # <<>> THEN <<x, <<>>>> ELSE <<>>

\* Mutant: an enumerator without brief description is left out.
RECURSIVE EnumValuesAnnotatedOnly(_)
EnumValuesAnnotatedOnly(evs) ==
    IF evs = <<>> THEN <<>>
    ELSE LET value_name == Strip(FindText(Head(evs), "name", <<>>))
             value_brief == RenderDescription(Find(Head(evs), "briefdescription"))
             rest == EnumValuesAnnotatedOnly(Tail(evs))
         IN IF value_name # <<>> /\ value_brief # <<>>
            THEN << <<"-", " ", BQ>> \o value_name \o <<BQ, ":", " ">>
                       \o value_brief >> \o rest
            ELSE rest

\* The list `values` of _RenderEnum.
RECURSIVE EnumValues(_)
EnumValues(evs) ==
    IF evs = <<>> THEN <<>>
    ELSE LET value_name == Strip(FindText(Head(evs), "name", <<>>))
             value_brief == RenderDescription(Find(Head(evs), "briefdescription"))
             rest == EnumValues(Tail(evs))
         IN IF value_name # <<>>
            THEN IF value_brief # <<>>
                 THEN << <<"-", " ", BQ>> \o value_name \o <<BQ, ":", " ">>
                            \o value_brief >> \o rest
                 ELSE << <<"-", " ", BQ>> \o value_name \o <<BQ>> >> \o rest
            ELSE rest

\* The list `parts` of _RenderEnum when it returns.
EnumParts(member) ==
    LET name == Strip(FindText(member, "name", <<>>))
        brief == RenderDescription(Find(member, "briefdescription"))
        detailed == RenderDescription(Find(member, "detaileddescription"))
        values == EnumValues(FindAll(member, "enumvalue"))
    IN << <<"###", " ", BQ, "enum", " ">> \o name \o <<BQ>>, <<>> >>
        \o Block(brief) \o Block(detailed)
        \o (IF values # <<>> THEN << <<"**Values**">>, <<>>, Join(NL, values), <<>> >>
            ELSE <<>>)

RenderEnum(member) == WrapCard(Join(NL, EnumParts(member)))

\* The value of `signature` in _RenderMember.
Signature(member) ==
    LET definition == Strip(FindText(member, "definition", <<>>))
        args == Strip(FindText(member, "argsstring", <<>>))
    IN IF args # <<>> THEN definition \o args
       ELSE IF definition # <<>> THEN definition
       ELSE Strip(FindText(member, "name", <<>>))

\* findall(".//tag[@kind='kind']") below an element.
FindDeep(e, tag, kind) ==
    SelectSeq(Descendants(e), LAMBDA d : d.tag = tag /\ d.attrs.kind = kind)

\* [f(x) for x in xs], flattened: f gives a sequence for each element.
RECURSIVE FlatMap(_, _)
FlatMap(f(_), xs) == IF xs = <<>> THEN <<>> ELSE f(Head(xs)) \o FlatMap(f, Tail(xs))

\* The assignments `descriptions[name] = desc` of _ExtractParameters, in order.
DescriptionPairs(member) ==
    LET detail == Find(member, "detaileddescription")
        Names(item) ==
            FlatMap(LAMBDA nl :
                        FlatMap(LAMBDA n : IF n.text # <<>> THEN <<Strip(n.text)>> ELSE <<>>,
                                FindAll(nl, "parametername")),
                    FindAll(item, "parameternamelist"))
        Pairs(item) ==
            FlatMap(LAMBDA name :
                        << <<name, RenderDescription(Find(item, "parameterdescription"))>> >>,
                    Names(item))
    IN IF IsNone(detail) THEN <<>>
       ELSE FlatMap(Pairs,
                    FlatMap(LAMBDA pl : FindAll(pl, "parameteritem"),
                            FindDeep(detail, "parameterlist", "param")))

\* descriptions.get(name, ""): the last assignment to the key wins.
RECURSIVE DictGet(_, _)
DictGet(pairs, name) ==
    IF pairs = <<>> THEN <<>>
    ELSE IF pairs[Len(pairs)][1] = name THEN pairs[Len(pairs)][2]
    ELSE DictGet(SubSeq(pairs, 1, Len(pairs) - 1), name)

\* The name _ExtractParameters gives a <param>: declname, else defname, else "".
ParamName(param) ==
    IF FindText(param, "declname", <<>>) # <<>> THEN FindText(param, "declname", <<>>)
    ELSE FindText(param, "defname", <<>>)

\* Mutant: a parameter without matching annotation is left out.
ExtractParametersDocumentedOnly(member) ==
    FlatMap(LAMBDA param :
                IF ParamName(param) = <<>>
                   \/ DictGet(DescriptionPairs(member), ParamName(param)) = <<>>
                THEN <<>>
                ELSE << <<ParamName(param),
                          DictGet(DescriptionPairs(member), ParamName(param))>> >>,
            FindAll(member, "param"))

\* _ExtractParameters
ExtractParameters(member) ==
    FlatMap(LAMBDA param :
                IF ParamName(param) = <<>> THEN <<>>
                ELSE << <<ParamName(param),
                          DictGet(DescriptionPairs(member), ParamName(param))>> >>,
            FindAll(member, "param"))

ExtractReturn(member) ==
    LET detail == Find(member, "detaileddescription")
    IN IF IsNone(detail) THEN <<>>
       ELSE IF FindDeep(detail, "simplesect", "return") = <<>> THEN <<>>
       ELSE RenderDescription(Head(FindDeep(detail, "simplesect", "return")))

ExtractNotes(member) ==
    LET detail == Find(member, "detaileddescription")
    IN IF IsNone(detail) THEN <<>>
       ELSE FlatMap(LAMBDA note : IF RenderDescription(note) # <<>>
                                  THEN <<RenderDescription(note)>> ELSE <<>>,
                    FindDeep(detail, "simplesect", "note"))

\* The list `parts` of _RenderMember when it returns.
MemberParts(member) ==
    LET brief == RenderDescription(Find(member, "briefdescription"))
        detailed == RenderDescription(Find(member, "detaileddescription"))
        params == ExtractParameters(member)
        returns == ExtractReturn(member)
        notes == ExtractNotes(member)
    IN << <<"###", " ", BQ>> \o Signature(member) \o <<BQ>>, <<>> >>
        \o Block(brief) \o Block(detailed)
        \o (IF params # <<>>
            THEN << <<"**Parameters**">>, <<>> >>
                 \o [i \in 1..Len(params) |->
                        <<"-", " ", BQ>> \o params[i][1] \o <<BQ, ":", " ">> \o params[i][2]]
                 \o << <<>> >>
            ELSE <<>>)
        \o (IF returns # <<>> THEN << <<"**Returns:**", " ">> \o returns, <<>> >> ELSE <<>>)
        \o (IF notes # <<>>
            THEN << <<"**Notes**">>, <<>> >>
                 \o [i \in 1..Len(notes) |-> <<"-", " ">> \o notes[i]]
                 \o << <<>> >>
            ELSE <<>>)

RenderMember(member) == WrapCard(Strip(Join(NL, MemberParts(member))))

\* _RenderMembers
RenderMembers(members) ==
    Join(NL, SelectSeq(
        [i \in 1..Len(members) |->
            IF members[i].attrs.kind \in {"enum"} THEN RenderEnum(members[i])
            ELSE RenderMember(members[i])],
        LAMBDA line : line # <<>>))

\* _SectionTitle.  The fallback kind.replace("-", " ").title() is tabulated
\* for the kinds outside the table that the inputs use.
SectionTitle(kind) ==
    CASE kind = "public-func" -> <<"Public Functions">>
      [] kind = "public-static-func" -> <<"Public Static Functions">>
      [] kind = "public-attrib" -> <<"Public Members">>
      [] kind = "public-static-attrib" -> <<"Public Static Members">>
      [] kind = "public-type" -> <<"Public Types">>
      [] kind = "protected-func" -> <<"Protected Functions">>
      [] kind = "protected-attrib" -> <<"Protected Members">>
      [] kind = "protected-type" -> <<"Protected Types">>
      [] kind = "private-func" -> <<"Private Functions">>
      [] kind = "private-attrib" -> <<"Private Members">>
      [] kind = "private-type" -> <<"Private Types">>
      [] kind = "friend" -> <<"Friends">>
      [] kind = "define" -> <<"Macros">>
      [] kind = "func" -> <<"Functions">>
      [] kind = "var" -> <<"Variables">>
      [] kind = "typedef" -> <<"Type Aliases">>
      [] kind = "enum" -> <<"Enumerations">>
      [] kind = "user-defined" -> <<"User Defined">>
      [] kind = "" -> <<>>

\* _RenderSections
RenderSections(compounddef) ==
    Strip(Join(NL,
        FlatMap(LAMBDA section :
                    LET rendered_ == RenderMembers(FindAll(section, "memberdef"))
                    IN IF rendered_ # <<>>
                       THEN << <<"##", " ">> \o SectionTitle(section.attrs.kind), <<>>,
                               rendered_, <<>> >>
                       ELSE <<>>,
                FindAll(compounddef, "sectiondef"))))

\* _RenderInner
RenderInner(compounddef) ==
    LET Lines(tag, label) ==
            FlatMap(LAMBDA inner :
                        IF Strip(inner.text) # <<>>
                        THEN << <<"-", " ", "**", label, ":**", " ">> \o Strip(inner.text) >>
                        ELSE <<>>,
                    FindAll(compounddef, tag))
    IN Join(NL, Lines("innernamespace", "Namespace") \o Lines("innerclass", "Type"))

\* A Compound of the catalog.
Compound(refid, kind, name) == [refid |-> refid, kind |-> kind, name |-> name]

\* The page _RenderCompound builds from a <compounddef>.
CompoundPage(compound, compounddef) ==
    LET title == IF compound.kind = "file"
                 THEN <<"File", " ", BQ>> \o compound.name \o <<BQ>>
                 ELSE compound.name
        brief == RenderDescription(Find(compounddef, "briefdescription"))
        detailed == RenderDescription(Find(compounddef, "detaileddescription"))
        contents == RenderInner(compounddef)
        members == RenderSections(compounddef)
    IN Strip(Join(NL,
           << <<"#", " ">> \o title, <<>> >>
           \o Block(brief) \o Block(detailed)
           \o (IF contents # <<>>
               THEN << <<"## Contents">>, <<>>, contents, <<>> >> ELSE <<>>)
           \o (IF members # <<>> THEN <<members>> ELSE <<>>)))
       \o NL

\* Mutant: the absent record is not told from one without <compounddef>.
RenderCompoundNoExistsCheck(compound, doc) ==
    IF IsNone(Find(doc, "compounddef"))
    THEN <<"#", " ">> \o compound.name
            \o <<"\n", "\n", "_Empty compound definition._", "\n">>
    ELSE CompoundPage(compound, Find(doc, "compounddef"))

\* _RenderCompound; doc is the content of xml_dir/<refid>.xml, or Missing.
RenderCompound(compound, doc) ==
    IF IsNone(doc)
    THEN <<"#", " ">> \o compound.name
            \o <<"\n", "\n", "_Unable to locate XML for", " ", compound.refid, "._", "\n">>
    ELSE IF IsNone(Find(doc, "compounddef"))
    THEN <<"#", " ">> \o compound.name
            \o <<"\n", "\n", "_Empty compound definition._", "\n">>
    ELSE CompoundPage(compound, Find(doc, "compounddef"))

\* ------------------------------------------------------------ the generator
Renderable == {"class", "struct", "namespace", "file", "union", "concept"}
TypeLike == {"class", "struct", "union", "concept"}

\* out_dir / f"{stem}.md"; the four index files are FileName("index"), ...
FileName(stem) == <<stem, ".md">>

\* The Compounds _LoadIndex appends for the <compound> elements cs.
RECURSIVE LoadCompounds(_)
LoadCompounds(cs) ==
    IF cs = <<>> THEN <<>>
    ELSE LET compound == Head(cs)
             kind == compound.attrs.kind
             refid == compound.attrs.refid
             name_elem == Find(compound, "name")
             name == IF ~IsNone(name_elem) /\ name_elem.text # <<>>
                     THEN Strip(name_elem.text) ELSE <<refid>>
         IN IF refid = "" THEN LoadCompounds(Tail(cs))
            ELSE <<Compound(refid, kind, name)>> \o LoadCompounds(Tail(cs))

\* write_text: the file is created or replaced.
WriteText(files, name, content) ==
    [f \in DOMAIN files \cup {name} |-> IF f = name THEN content ELSE files[f]]

NoFiles == [f \in {} |-> <<>>]

\* Mutant: a page is written for a compound of any kind.
RECURSIVE WritePagesAnyKind(_, _, _, _, _)
WritePagesAnyKind(cs, docs, i, files, log) ==
    IF i > Len(cs) THEN [files |-> files, log |-> log]
    ELSE WritePagesAnyKind(cs, docs, i + 1,
                           WriteText(files, FileName(cs[i].refid),
                                     RenderCompound(cs[i], docs[cs[i].refid])),
                           Append(log, [file |-> FileName(cs[i].refid), by |-> i]))

\* The loop of _WriteCompoundPages from compound i on: the files of out_dir
\* and the write_text calls made.
RECURSIVE WritePages(_, _, _, _, _)
WritePages(cs, docs, i, files, log) ==
    IF i > Len(cs) THEN [files |-> files, log |-> log]
    ELSE IF cs[i].kind \in Renderable
    THEN WritePages(cs, docs, i + 1,
                    WriteText(files, FileName(cs[i].refid),
                              RenderCompound(cs[i], docs[cs[i].refid])),
                    Append(log, [file |-> FileName(cs[i].refid), by |-> i]))
    ELSE WritePages(cs, docs, i + 1, files, log)

\* Mutant: an item is put before the items of equal name.
RECURSIVE InsertSortedUnstable(_, _)
InsertSortedUnstable(sorted, c) ==
    IF sorted = <<>> THEN <<c>>
    ELSE IF ~StrLess(Head(sorted).name, c.name) THEN <<c>> \o sorted
    ELSE <<Head(sorted)>> \o InsertSortedUnstable(Tail(sorted), c)

\* sorted(items, key=lambda c: c.name): stable, by code point.
RECURSIVE InsertSorted(_, _)
InsertSorted(sorted, c) ==
    IF sorted = <<>> THEN <<c>>
    ELSE IF StrLess(c.name, Head(sorted).name) THEN <<c>> \o sorted
    ELSE <<Head(sorted)>> \o InsertSorted(Tail(sorted), c)

RECURSIVE Sorted(_)
Sorted(items) ==
    IF items = <<>> THEN <<>>
    ELSE InsertSorted(Sorted(SubSeq(items, 1, Len(items) - 1)), items[Len(items)])

\* The three partitions of _WriteIndexes.
Namespaces(cs) == Sorted(SelectSeq(cs, LAMBDA c : c.kind = "namespace"))
Types(cs) == Sorted(SelectSeq(cs, LAMBDA c : c.kind \in TypeLike))
Files(cs) == Sorted(SelectSeq(cs, LAMBDA c : c.kind = "file"))

\* render_list
RenderListOf(items) ==
    IF items = <<>> THEN <<"_None_">>
    ELSE Join(NL, [i \in 1..Len(items) |->
                    <<"-", " ", "[">> \o items[i].name \o <<"](", items[i].refid, ".md", ")">>])

\* index_content
IndexContent(cs) ==
    <<"# API Reference", "\n", "\n",
      "This section is generated from Doxygen XML output and rendered inside MkDocs.",
      "\n", "\n",
      "- **Namespaces:**", " ", IntStr(Len(Namespaces(cs))), "\n",
      "- **Types:**", " ", IntStr(Len(Types(cs))), "\n",
      "- **Files:**", " ", IntStr(Len(Files(cs))), "\n", "\n",
      "## Quick Index", "\n", "\n",
      "- [Namespaces](namespaces.md)", "\n",
      "- [Types](types.md)", "\n",
      "- [Files](files.md)", "\n">>

NamespacesContent(cs) == <<"# Namespaces", "\n", "\n">> \o RenderListOf(Namespaces(cs)) \o NL
TypesContent(cs) == <<"# Types", "\n", "\n">> \o RenderListOf(Types(cs)) \o NL
FilesContent(cs) == <<"# Files", "\n", "\n">> \o RenderListOf(Files(cs)) \o NL

\* ----------------------------------------------------------------- actions
\* Mutant: the absent index.xml is read as an empty catalog.
LoadIndexNoExistsCheck ==
    /\ pc = "start"
    /\ compounds' = compounds \o LoadCompounds(FindAll(indexXml, "compound"))
    /\ pc' = "loaded"
    /\ UNCHANGED <<indexXml, xmlFiles, outExists, outFiles, writes>>
    /\ UNCHANGED callVars

\* _LoadIndex
LoadIndex ==
    /\ pc = "start"
    /\ IF IsNone(indexXml)
       THEN pc' = "failed" /\ UNCHANGED compounds
       ELSE /\ compounds' = compounds \o LoadCompounds(FindAll(indexXml, "compound"))
            /\ pc' = "loaded"
    /\ UNCHANGED <<indexXml, xmlFiles, outExists, outFiles, writes>>
    /\ UNCHANGED callVars

\* _PrepareOutput
PrepareOutput ==
    /\ pc = "loaded"
    /\ outFiles' = NoFiles
    /\ outExists' = TRUE
    /\ pc' = "prepared"
    /\ UNCHANGED <<indexXml, xmlFiles, compounds, writes>>
    /\ UNCHANGED callVars

\* _WriteCompoundPages
WriteCompoundPages ==
    /\ pc = "prepared"
    /\ LET r == WritePages(compounds, xmlFiles, 1, outFiles, writes)
       IN outFiles' = r.files /\ writes' = r.log
    /\ pc' = "pages"
    /\ UNCHANGED <<indexXml, xmlFiles, outExists, compounds>>
    /\ UNCHANGED callVars

\* _WriteIndexes
WriteIndexes ==
    /\ pc = "pages"
    /\ outFiles' =
          WriteText(WriteText(WriteText(WriteText(outFiles,
              FileName("index"), IndexContent(compounds)),
              FileName("namespaces"), NamespacesContent(compounds)),
              FileName("types"), TypesContent(compounds)),
              FileName("files"), FilesContent(compounds))
    /\ writes' = writes \o [i \in 1..4 |->
                    [file |-> FileName(<<"index", "namespaces", "types", "files">>[i]),
                     by |-> 0]]
    /\ pc' = "done"
    /\ UNCHANGED <<indexXml, xmlFiles, outExists, compounds>>
    /\ UNCHANGED callVars

\* Run
Next == LoadIndex \/ PrepareOutput \/ WriteCompoundPages \/ WriteIndexes

\* ------------------------------------------------------------------ inputs
\* Sequences over S of length at most n.
RECURSIVE SeqsUpTo(_, _)
SeqsUpTo(S, n) ==
    IF n = 0 THEN {<<>>}
    ELSE LET shorter == SeqsUpTo(S, n - 1)
         IN shorter \cup {Append(q, x) : q \in shorter, x \in S}

\* The <compound> elements of an index.xml.
CompoundElems(kinds, refids, names) ==
    {E("compound", [kind |-> k, refid |-> r, url |-> ""], <<>>, nm, <<>>) :
        k \in kinds, r \in refids, nm \in names}

IndexDocs(kinds, refids, names) ==
    {E("doxygenindex", NoAttrs, <<>>, cs, <<>>) :
        cs \in SeqsUpTo(CompoundElems(kinds, refids, names), MaxCompounds)}

\* A detail record without <compounddef>, and one with a documented function.
DocNoDef == E("doxygen", NoAttrs, <<>>, <<>>, <<>>)
DocOk ==
    E("doxygen", NoAttrs, <<>>, <<
        E("compounddef", NoAttrs, <<>>, <<
            E("briefdescription", NoAttrs, <<>>, <<T("para", <<"d">>)>>, <<>>),
            T("innerclass", <<"A">>),
            E("sectiondef", [NoAttrs EXCEPT !.kind = "public-func"], <<>>, <<
                E("memberdef", [NoAttrs EXCEPT !.kind = "function"], <<>>, <<
                    T("name", <<"f">>), T("definition", <<"v", " ", "f">>),
                    T("argsstring", <<"(", ")">>),
                    E("briefdescription", NoAttrs, <<>>, <<T("para", <<"s">>)>>, <<>>)
                >>, <<>>) >>, <<>>)
        >>, <<>>) >>, <<>>)

RunRefids == {"a", "b", "index"}
StaleFiles == [f \in {FileName("old"), FileName("a")} |-> <<"stale">>]

NoCall ==
    /\ elem = Missing
    /\ call = "none"
    /\ parts = <<>>
    /\ rendered = <<>>

Init ==
    /\ indexXml \in {Missing} \cup
          IndexDocs({"class", "file", "page"}, {""} \cup RunRefids,
                    {<<>>, <<T("name", <<"B">>)>>})
    /\ xmlFiles \in [RunRefids -> {Missing, DocNoDef, DocOk}]
    /\ \/ outExists = FALSE /\ outFiles = NoFiles
       \/ outExists = TRUE /\ outFiles = StaleFiles
    /\ compounds = <<>>
    /\ writes = <<>>
    /\ pc = "start"
    /\ NoCall

Spec == Init /\ [][Next]_vars

\* The inputs of the index pages: three kinds, one per partition, and display
\* names that differ in case and in length; no detail record, no out_dir.
InitIndex ==
    /\ indexXml \in
          {E("doxygenindex", NoAttrs, <<>>, cs, <<>>) :
              cs \in SeqsUpTo(CompoundElems({"namespace", "class", "file"}, {"a", "b"},
                                            {<<>>, <<T("name", <<"B">>)>>,
                                             <<T("name", <<"a", "B">>)>>}),
                              MaxCompounds + 1)}
    /\ xmlFiles = [r \in {"a", "b"} |-> Missing]
    /\ outExists = FALSE /\ outFiles = NoFiles
    /\ compounds = <<>>
    /\ writes = <<>>
    /\ pc = "start"
    /\ NoCall

SpecIndex == InitIndex /\ [][Next]_vars

\* ---------------------------------------------------- renderers on their own
\* _RenderMembers hands a <memberdef> of kind enum to _RenderEnum
CallRenderEnum ==
    /\ call = "none"
    /\ elem.tag = "memberdef" /\ elem.attrs.kind \in {"enum"}
    /\ parts' = EnumParts(elem)
    /\ rendered' = RenderEnum(elem)
    /\ call' = "RenderEnum"
    /\ UNCHANGED elem
    /\ UNCHANGED runVars

\* and every other <memberdef> to _RenderMember.
CallRenderMember ==
    /\ call = "none"
    /\ elem.tag = "memberdef" /\ elem.attrs.kind \notin {"enum"}
    /\ parts' = MemberParts(elem)
    /\ rendered' = RenderMember(elem)
    /\ call' = "RenderMember"
    /\ UNCHANGED elem
    /\ UNCHANGED runVars

NextMembers == CallRenderEnum \/ CallRenderMember

\* _RenderDescription hands a <para> to _RenderInline.
CallRenderInline ==
    /\ call = "none"
    /\ elem.tag = "para"
    /\ rendered' = RenderInline(elem)
    /\ call' = "RenderInline"
    /\ UNCHANGED <<elem, parts>>
    /\ UNCHANGED runVars

NextInline == CallRenderInline

NoRun ==
    /\ indexXml = Missing
    /\ xmlFiles = [r \in {} |-> Missing]
    /\ outExists = FALSE /\ outFiles = NoFiles
    /\ compounds = <<>>
    /\ writes = <<>>
    /\ pc = "start"

Desc(tag, paras) == E(tag, NoAttrs, <<>>, paras, <<>>)

\* <param> elements: declname and defname each present or not.
ParamElems ==
    {E("param", NoAttrs, <<>>, <<T("type", <<"i">>)>> \o d \o f, <<>>) :
        d \in {<<>>, <<T("declname", <<"x">>)>>, <<T("declname", <<"y">>)>>},
        f \in {<<>>, <<T("defname", <<"x">>)>>}}

\* One <parameteritem> documenting the names with the text.
ParamItem(names, text) ==
    E("parameteritem", NoAttrs, <<>>, <<
        E("parameternamelist", NoAttrs, <<>>,
          [i \in 1..Len(names) |-> T("parametername", names[i])], <<>>),
        Desc("parameterdescription", <<T("para", text)>>) >>, <<>>)

ParamList(kind, items) ==
    E("parameterlist", [NoAttrs EXCEPT !.kind = kind], <<>>, items, <<>>)

\* <detaileddescription> variants: none, no annotation, x documented, x
\* documented twice, x and y documented in one item with padded names, a
\* retval list only, and a return section next to the documentation of y.
DetailOpts ==
    {<<>>,
     <<Desc("detaileddescription", <<T("para", <<"t">>)>>)>>,
     <<Desc("detaileddescription",
            <<E("para", NoAttrs, <<>>,
                <<ParamList("param", <<ParamItem(<< <<"x">> >>, <<"p">>)>>)>>, <<>>)>>)>>,
     <<Desc("detaileddescription",
            <<E("para", NoAttrs, <<>>,
                <<ParamList("param", <<ParamItem(<< <<"x">> >>, <<"p">>),
                                       ParamItem(<< <<"x">> >>, <<"q">>)>>)>>, <<>>)>>)>>,
     <<Desc("detaileddescription",
            <<E("para", NoAttrs, <<>>,
                <<ParamList("param",
                    <<ParamItem(<< <<" ", "x">>, <<"y", " ">>, <<>> >>, <<"p">>)>>)>>,
                <<>>)>>)>>,
     <<Desc("detaileddescription",
            <<E("para", NoAttrs, <<>>,
                <<ParamList("retval", <<ParamItem(<< <<"x">> >>, <<"r">>)>>)>>, <<>>)>>)>>,
     <<Desc("detaileddescription",
            <<E("para", NoAttrs, <<>>,
                <<ParamList("param", <<ParamItem(<< <<"y">> >>, <<>>)>>),
                  E("simplesect", [NoAttrs EXCEPT !.kind = "return"], <<>>,
                    <<T("para", <<"r">>)>>, <<>>),
                  E("simplesect", [NoAttrs EXCEPT !.kind = "note"], <<>>,
                    <<T("para", <<"n">>)>>, <<>>)>>, <<>>)>>)>>}

NameOpts == {<<>>, <<T("name", <<"f">>)>>, <<T("name", <<" ">>)>>}

\* <memberdef> elements of a kind other than enum.
MemberElems ==
    {E("memberdef", [NoAttrs EXCEPT !.kind = k], <<>>, n \o d \o a \o ps \o dd, <<>>) :
        k \in {"function", "variable"},
        n \in NameOpts,
        d \in {<<>>, <<T("definition", <<"v", " ", "f">>)>>},
        a \in {<<>>, <<T("argsstring", <<"(", "i", ")">>)>>},
        ps \in SeqsUpTo(ParamElems, MaxParams),
        dd \in DetailOpts}

\* <enumvalue> elements: with or without name, and with no brief description,
\* a brief description, or one that holds white space only.
EnumValueElems ==
    {E("enumvalue", NoAttrs, <<>>, n \o b, <<>>) :
        n \in {<<>>, <<T("name", <<"p">>)>>, <<T("name", <<"q", " ">>)>>},
        b \in {<<>>, <<Desc("briefdescription", <<T("para", <<"d">>)>>)>>,
                     <<Desc("briefdescription", <<T("para", <<" ">>)>>)>>}}

EnumElems ==
    {E("memberdef", [NoAttrs EXCEPT !.kind = "enum"], <<>>, n \o b \o vs, <<>>) :
        n \in NameOpts,
        b \in {<<>>, <<Desc("briefdescription", <<T("para", <<"e">>)>>)>>},
        vs \in SeqsUpTo(EnumValueElems, MaxValues)}

InitMembers ==
    /\ NoRun
    /\ elem \in MemberElems \cup EnumElems
    /\ call = "none"
    /\ parts = <<>>
    /\ rendered = <<>>

SpecMembers == InitMembers /\ [][NextMembers]_vars

\* Inline nodes.  Text and tail segments are made of the letters a..g and of
\* the tab, which no markup of the renderer contains.
InlineTags == {"parameterlist", "simplesect", "computeroutput", "tt", "bold",
               "emphasis", "ref", "ulink", "linebreak", "sp"}

Node(tag, text, children, tail) == E(tag, NoAttrs, text, children, tail)

InlineLeaves ==
    {Node(tag, <<"a">>, <<>>, <<"b">>) : tag \in InlineTags}
    \cup {E("ulink", [NoAttrs EXCEPT !.url = "u"], <<"a">>, <<>>, <<"b">>),
          Node("bold", <<>>, <<>>, <<>>),
          Node("linebreak", <<>>, <<>>, <<"\t">>)}

ListItems ==
    << Node("listitem", <<"\t", "d">>, <<Node("bold", <<"e">>, <<>>, <<"\t">>)>>, <<"f">>),
       Node("listitem", <<"g">>, <<>>, <<>>) >>

InlineLists ==
    {Node(tag, text, SubSeq(ListItems, 1, n), <<"b">>) :
        tag \in {"itemizedlist", "orderedlist"}, text \in {<<>>, <<"c">>}, n \in 0..2}

InlineNested ==
    {Node(tag, <<"c">>, <<inner>>, <<"d">>) :
        tag \in {"bold", "simplesect", "ref"},
        inner \in {Node("emphasis", <<"e">>, <<>>, <<"f">>),
                   Node("itemizedlist", <<>>, <<ListItems[2]>>, <<"f">>)}}

InlineNodes == InlineLeaves \cup InlineLists \cup InlineNested

InitInline ==
    /\ NoRun
    /\ elem \in {Node("para", text, cs, <<>>) :
                    text \in {<<>>, <<"\t", "a">>},
                    cs \in SeqsUpTo(InlineNodes, MaxChildren)}
    /\ call = "none"
    /\ parts = <<>>
    /\ rendered = <<>>

SpecInline == InitInline /\ [][NextInline]_vars

\* ------------------------------------------------------------------ claims
IndexFiles == {FileName("index"), FileName("namespaces"), FileName("types"), FileName("files")}

RenderableIdx == {i \in 1..Len(compounds) : compounds[i].kind \in Renderable}

\* C1: when index.xml is absent, every step of Run fails and leaves out_dir
\* as it was: not cleared, not created, nothing written, nothing loaded.
C1_MissingIndexAborts ==
    [][IsNone(indexXml) =>
          /\ pc' = "failed"
          /\ UNCHANGED <<outExists, outFiles, writes, compounds>>]_vars

C1_Witness == IsNone(indexXml) /\ pc = "failed" /\ outExists /\ outFiles = StaleFiles

\* C2 (as claimed): after a successful Run out_dir holds exactly <refid>.md for
\* each renderable compound, with that compound's own page, and the four
\* index files with the index pages.
C2_ExactOutput ==
    pc = "done" =>
        /\ DOMAIN outFiles = {FileName(compounds[i].refid) : i \in RenderableIdx}
                                \cup IndexFiles
        /\ \A i \in RenderableIdx :
              outFiles[FileName(compounds[i].refid)] =
                  RenderCompound(compounds[i], xmlFiles[compounds[i].refid])
        /\ outFiles[FileName("index")] = IndexContent(compounds)
        /\ outFiles[FileName("namespaces")] = NamespacesContent(compounds)
        /\ outFiles[FileName("types")] = TypesContent(compounds)
        /\ outFiles[FileName("files")] = FilesContent(compounds)

\* C3: no write_text call is made for a compound whose kind is not renderable,
\* and a file named after such a compound exists only when a renderable
\* compound or an index page has the same name.
C3_NoFileForOtherKinds ==
    \A i \in 1..Len(compounds) :
        compounds[i].kind \notin Renderable =>
            /\ \A w \in 1..Len(writes) : writes[w].by # i
            /\ (pc \in {"prepared", "pages", "done"}
                  /\ FileName(compounds[i].refid) \in DOMAIN outFiles) =>
                    \/ FileName(compounds[i].refid) \in IndexFiles
                    \/ \E j \in RenderableIdx : compounds[j].refid = compounds[i].refid

C3_Witness ==
    /\ pc = "done"
    /\ \E i \in 1..Len(compounds) :
          /\ compounds[i].kind \notin Renderable
          /\ FileName(compounds[i].refid) \notin DOMAIN outFiles
    /\ RenderableIdx # {}

\* The compound whose page a file holds: the last write_text to it.
LastWriter(f) ==
    LET ws == {w \in 1..Len(writes) : writes[w].file = f}
    IN writes[CHOOSE w \in ws : \A v \in ws : v <= w].by

\* The files a Run leaves when the detail records are docs.
RunOutput(docs) ==
    LET pages == WritePages(compounds, docs, 1, NoFiles, <<>>).files
    IN WriteText(WriteText(WriteText(WriteText(pages,
          FileName("index"), IndexContent(compounds)),
          FileName("namespaces"), NamespacesContent(compounds)),
          FileName("types"), TypesContent(compounds)),
          FileName("files"), FilesContent(compounds))

\* C4: a renderable compound without detail record gets the placeholder page
\* (title and the "unable to locate" notice), the run does not abort, and all
\* other pages and the four index files are what they would be with the
\* record present.
C4_MissingRecordPlaceholder ==
    /\ ~IsNone(indexXml) => pc # "failed"
    /\ pc \in {"pages", "done"} =>
          \A f \in DOMAIN outFiles :
              (LastWriter(f) # 0 /\ IsNone(xmlFiles[compounds[LastWriter(f)].refid])) =>
                  outFiles[f] =
                      <<"#", " ">> \o compounds[LastWriter(f)].name
                        \o <<"\n", "\n", "_Unable to locate XML for", " ",
                             compounds[LastWriter(f)].refid, "._", "\n">>
    /\ pc = "done" =>
          \A i \in RenderableIdx :
              IsNone(xmlFiles[compounds[i].refid]) =>
                  \A d \in {DocNoDef, DocOk} :
                      LET alt == RunOutput([xmlFiles EXCEPT ![compounds[i].refid] = d])
                      IN /\ DOMAIN alt = DOMAIN outFiles
                         /\ \A f \in (DOMAIN outFiles \ {FileName(compounds[i].refid)})
                                        \cup IndexFiles :
                                outFiles[f] = alt[f]

C4_Witness ==
    /\ pc = "done"
    /\ \E i, j \in RenderableIdx :
          /\ IsNone(xmlFiles[compounds[i].refid])
          /\ ~IsNone(xmlFiles[compounds[j].refid])
          /\ LastWriter(FileName(compounds[i].refid)) = i
          /\ LastWriter(FileName(compounds[j].refid)) = j

\* C5 (as claimed): the catalog holds the entries of index.xml that have a
\* refid, in discovery order, with non-empty and pairwise distinct refids.
C5_Deduplicated ==
    pc \in {"loaded", "prepared", "pages", "done"} =>
        /\ \A i \in 1..Len(compounds) : compounds[i].refid # ""
        /\ \A i, j \in 1..Len(compounds) :
              compounds[i].refid = compounds[j].refid => i = j
        /\ LET listed == SelectSeq(FindAll(indexXml, "compound"),
                                   LAMBDA c : c.attrs.refid # "")
           IN \E pick \in [1..Len(compounds) -> 1..Len(listed)] :
                 /\ \A i, j \in 1..Len(compounds) : i < j => pick[i] < pick[j]
                 /\ \A i \in 1..Len(compounds) :
                       compounds[i].refid = listed[pick[i]].attrs.refid

\* The compounds of a partition, as positions in the catalog, ordered by display
\* name (code-point order) and, among equal names, by catalog position.
ExpectedOrder(kinds) ==
    LET I == {i \in 1..Len(compounds) : compounds[i].kind \in kinds}
        n == Cardinality(I)
    IN CHOOSE s \in [1..n -> I] :
          /\ \A p, q \in 1..n : p # q => s[p] # s[q]
          /\ \A p, q \in 1..n : p < q =>
                \/ StrLess(compounds[s[p]].name, compounds[s[q]].name)
                \/ compounds[s[p]].name = compounds[s[q]].name /\ s[p] < s[q]

\* The index page of a partition: one bullet per compound in the expected
\* order, or the marker when there is none.
ExpectedIndexPage(title, kinds) ==
    LET s == ExpectedOrder(kinds)
        Bullet(i) == <<"-", " ", "[">> \o compounds[i].name
                        \o <<"](", compounds[i].refid, ".md", ")">>
    IN <<title, "\n", "\n">>
        \o (IF Len(s) = 0 THEN <<"_None_">>
            ELSE Join(NL, [p \in 1..Len(s) |-> Bullet(s[p])]))
        \o NL

\* C6: each index page lists exactly the compounds of its partition, one
\* bullet each, by display name in code-point order with equal names in
\* catalog order, and shows _None_ exactly when the partition is empty.
C6_IndexPages ==
    pc = "done" =>
        /\ outFiles[FileName("namespaces")] = ExpectedIndexPage("# Namespaces", {"namespace"})
        /\ outFiles[FileName("types")] = ExpectedIndexPage("# Types", TypeLike)
        /\ outFiles[FileName("files")] = ExpectedIndexPage("# Files", {"file"})

C6_Witness ==
    /\ pc = "done"
    /\ \E i, j, k \in 1..Len(compounds) :
          /\ i < j /\ j < k
          /\ compounds[i].kind = "class" /\ compounds[j].kind = "class"
          /\ compounds[k].kind = "class"
          /\ compounds[i].name = compounds[k].name
          /\ compounds[i].refid # compounds[k].refid
          /\ StrLess(compounds[j].name, compounds[i].name)
    /\ outFiles[FileName("files")] = <<"# Files", "\n", "\n", "_None_", "\n">>

\* The text of the first child with the tag, stripped; <<>> when absent.
Stripped(e, tag) == Strip(FindText(e, tag, <<>>))

\* The heading a member card opens with, for a signature.
Heading(sig) == <<"###", " ", BQ>> \o sig \o <<BQ>>

\* C7 (as claimed): the signature in the heading of a non-enumeration member
\* is never empty: definition + argument list when both are present, else
\* the definition alone, else the bare declared name.
C7_SignatureNeverEmpty ==
    call = "RenderMember" =>
        LET definition == Stripped(elem, "definition")
            args == Stripped(elem, "argsstring")
            sig == IF definition # <<>> /\ args # <<>> THEN definition \o args
                   ELSE IF definition # <<>> THEN definition
                   ELSE Stripped(elem, "name")
        IN /\ sig # <<>>
           /\ parts[1] = Heading(sig)
           /\ SubSeq(rendered, 3, 2 + Len(Heading(sig))) = Heading(sig)

\* The entries of `parts` that follow the block title and its blank line, up
\* to the blank line that closes the block; <<>> when the title is absent.
BlockOf(title) ==
    LET at == {p \in 1..Len(parts) : parts[p] = title}
    IN IF at = {} THEN <<>>
       ELSE LET first == (CHOOSE p \in at : \A q \in at : p <= q) + 2
                end == CHOOSE q \in first..Len(parts) :
                          parts[q] = <<>> /\ \A r \in first..(q - 1) : parts[r] # <<>>
            IN SubSeq(parts, first, end - 1)

HasBlock(title) == \E p \in 1..Len(parts) : parts[p] = title

\* The free-text annotation matched to a parameter name: the description of
\* the last <parameteritem> of a kind="param" list that names it, else "".
AnnotationOf(member, name) ==
    LET detail == Find(member, "detaileddescription")
        items == IF IsNone(detail) THEN <<>>
                 ELSE SelectSeq(Descendants(detail),
                        LAMBDA d : /\ d.tag = "parameteritem"
                                   /\ \E pl \in 1..Len(Descendants(detail)) :
                                        /\ Descendants(detail)[pl].tag = "parameterlist"
                                        /\ Descendants(detail)[pl].attrs.kind = "param"
                                        /\ \E c \in 1..Len(Descendants(detail)[pl].children) :
                                              Descendants(detail)[pl].children[c] = d)
        Matches(item) ==
            \E nl \in 1..Len(item.children) :
                /\ item.children[nl].tag = "parameternamelist"
                /\ \E n \in 1..Len(item.children[nl].children) :
                      /\ item.children[nl].children[n].tag = "parametername"
                      /\ item.children[nl].children[n].text # <<>>
                      /\ Strip(item.children[nl].children[n].text) = name
        matching == SelectSeq(items, Matches)
    IN IF matching = <<>> THEN <<>>
       ELSE RenderDescription(Find(matching[Len(matching)], "parameterdescription"))

ParamBullet(member, name) ==
    <<"-", " ", BQ>> \o name \o <<BQ, ":", " ">> \o AnnotationOf(member, name)

\* C8 (as claimed): the Parameters block has exactly one bullet per formal
\* parameter, in declaration order, described by the annotation of that name
\* or by the empty string.
C8_OneBulletPerParam ==
    call = "RenderMember" =>
        LET formal == FindAll(elem, "param")
        IN BlockOf(<<"**Parameters**">>) =
              [i \in 1..Len(formal) |-> ParamBullet(elem, ParamName(formal[i]))]

\* C8 (amended): the Parameters block has exactly one bullet per formal
\* parameter that has a name (declname, else defname), in declaration order,
\* described by the annotation of that name or by the empty string; a
\* parameter without name has no bullet, and the block is present exactly
\* when some parameter has a name.
C8_OneBulletPerNamedParam ==
    call = "RenderMember" =>
        LET named == SelectSeq(FindAll(elem, "param"),
                               LAMBDA p : FindText(p, "declname", <<>>) # <<>>
                                          \/ FindText(p, "defname", <<>>) # <<>>)
            NameOf(p) == IF FindText(p, "declname", <<>>) # <<>>
                         THEN FindText(p, "declname", <<>>)
                         ELSE FindText(p, "defname", <<>>)
        IN /\ BlockOf(<<"**Parameters**">>) =
                [i \in 1..Len(named) |-> ParamBullet(elem, NameOf(named[i]))]
           /\ HasBlock(<<"**Parameters**">>) <=> named # <<>>

C8_Witness ==
    /\ call = "RenderMember"
    /\ Len(FindAll(elem, "param")) = 2
    /\ Len(BlockOf(<<"**Parameters**">>)) = 2
    /\ BlockOf(<<"**Parameters**">>)[1] = <<"-", " ", BQ, "y", BQ, ":", " ">>
    /\ BlockOf(<<"**Parameters**">>)[2] = <<"-", " ", BQ, "x", BQ, ":", " ", "q">>

\* The named enumerators, and whether one has a brief description.
NamedValues(member) ==
    SelectSeq(FindAll(member, "enumvalue"), LAMBDA v : Stripped(v, "name") # <<>>)

BriefOf(v) == RenderDescription(Find(v, "briefdescription"))

ValueBullet(v) ==
    IF BriefOf(v) # <<>>
    THEN <<"-", " ", BQ>> \o Stripped(v, "name") \o <<BQ, ":", " ">> \o BriefOf(v)
    ELSE <<"-", " ", BQ>> \o Stripped(v, "name") \o <<BQ>>

ValuesBlock(member) ==
    <<Join(NL, [i \in 1..Len(NamedValues(member)) |-> ValueBullet(NamedValues(member)[i])])>>

\* C10 (as claimed): the Values block lists each named enumerator once, in
\* declaration order, with ": <description>" when it has a brief description
\* and the bare name when it has none, and the block is omitted when no
\* enumerator carries annotation.
C10_ValuesBlock ==
    call = "RenderEnum" =>
        IF \E i \in 1..Len(FindAll(elem, "enumvalue")) :
               BriefOf(FindAll(elem, "enumvalue")[i]) # <<>>
        THEN /\ HasBlock(<<"**Values**">>)
             /\ BlockOf(<<"**Values**">>) = ValuesBlock(elem)
        ELSE ~HasBlock(<<"**Values**">>)

\* C10 (amended): as claimed, but the block is omitted exactly when the
\* enumeration has no named enumerator, annotated or not.
C10_ValuesBlockOfNamed ==
    call = "RenderEnum" =>
        IF NamedValues(elem) # <<>>
        THEN /\ HasBlock(<<"**Values**">>)
             /\ BlockOf(<<"**Values**">>) = ValuesBlock(elem)
        ELSE ~HasBlock(<<"**Values**">>)

C10_Witness ==
    /\ call = "RenderEnum"
    /\ BlockOf(<<"**Values**">>) =
          << <<"-", " ", BQ, "q", BQ, "\n", "-", " ", BQ, "p", BQ, ":", " ", "d">> >>

\* The characters of text and tail segments.
TextChars == {"a", "b", "c", "d", "e", "f", "g", "\t"}

TextOnly(str) == SelectSeq(str, LAMBDA a : a \in TextChars)

\* The text and tail segments below a node in document order; those inside a
\* node whose tag is in `dropped` are left out, the tail of that node is not.
RECURSIVE Segments(_, _)
RECURSIVE SegmentsOfAll(_, _)
Segments(e, dropped) == e.text \o SegmentsOfAll(e.children, dropped)
SegmentsOfAll(cs, dropped) ==
    IF cs = <<>> THEN <<>>
    ELSE (IF Head(cs).tag \in dropped THEN <<>> ELSE Segments(Head(cs), dropped))
            \o Head(cs).tail \o SegmentsOfAll(Tail(cs), dropped)

Suppressed == {"parameterlist", "simplesect"}

\* Whether s is t with some elements left out.
RECURSIVE IsSubsequence(_, _)
IsSubsequence(s, t) ==
    IF s = <<>> THEN TRUE
    ELSE IF t = <<>> THEN FALSE
    ELSE IF Head(s) = Head(t) THEN IsSubsequence(Tail(s), Tail(t))
    ELSE IsSubsequence(s, Tail(t))

\* Whether a list node, or a line break with content, lies below the node
\* outside the suppressed nodes.
RECURSIVE HasListOrBreakText(_)
HasListOrBreakText(e) ==
    \E i \in 1..Len(e.children) :
        LET c == e.children[i]
        IN \/ c.tag \in {"itemizedlist", "orderedlist"}
           \/ c.tag = "linebreak" /\ Segments(c, {}) # <<>>
           \/ c.tag \notin Suppressed /\ HasListOrBreakText(c)

\* C9 (as claimed): the text of the output is every text and tail segment of
\* the tree in document order, none reordered and none dropped, but for the
\* content of the suppressed parameterlist and simplesect nodes.
C9_AllSegmentsInOrder ==
    call = "RenderInline" => TextOnly(rendered) = Segments(elem, Suppressed)

\* C9 (amended): the output is the leading text, then each child's rendered
\* form followed by its tail; its text is the segments of the tree in
\* document order, none reordered, and none dropped but the content of
\* suppressed nodes when the tree holds no nested list and no line break
\* with content (a list keeps only its items, trimmed, and a line break
\* none of its content).
C9_SegmentsInOrder ==
    call = "RenderInline" =>
        /\ IsSubsequence(TextOnly(rendered), Segments(elem, Suppressed \cup {"linebreak"}))
        /\ ~HasListOrBreakText(elem) => TextOnly(rendered) = Segments(elem, Suppressed)
        /\ IsSubsequence(elem.text \o Concat([i \in 1..Len(elem.children) |->
                                                 elem.children[i].tail]),
                         rendered)

C9_Witness ==
    /\ call = "RenderInline"
    /\ Len(elem.children) = 2
    /\ elem.children[1].tag = "bold" /\ Len(elem.children[1].children) = 1
    /\ elem.children[2].tag = "simplesect"
    /\ rendered = <<"\t", "a", "**", "c", "*", "e", "*", "f", "**", "d", "b">>

====
